---- MODULE Spec2Model ----
(***************************************************************************)
(* A model of fusion-kbd-controller-rs: the command header codec and the   *)
(* device session of src/src/kbd.rs, driven by the control flow of main()  *)
(* in src/src/main.rs.  Every call into the USB access layer is one step   *)
(* and is appended, with its arguments and its outcome, to `log`.          *)
(***************************************************************************)
EXTENDS Integers, Naturals, Sequences, FiniteSets, TLC

VARIABLES
    pc,       \* position in main() / FusionKBD::new / the operation / drop
    mode,     \* the Mode main() matched, with its arguments (fixed per run)
    drv,      \* drv[i]: a kernel driver is bound to interface i
    drv0,     \* drv as it was before FusionKBD::new ran
    claimed,  \* claimed[i]: this process holds the claim on interface i
    handle,   \* "none" | "open" | "closed": the libusb::DeviceHandle
    kbd,      \* "none" | "live" | "dropped": the FusionKBD value
    log,      \* the calls made to the USB access layer, in order
    rets,     \* the values returned by the FusionKBD methods, in order
    ip,       \* index in mode.prog of the operation main() is at
    i,        \* loop variable of upload_custom
    shorts,   \* short interrupt transfers the device has produced so far
    result,   \* "running" | "Ok" | "Err" | "panic": how main() ended
    error,    \* the libusb::Error main() returned, "none" if it returned none
    hargs,    \* arguments of the Header::new call under test (codec runs)
    hdr,      \* bytes of the header built from hargs (codec runs)
    outbuf,   \* main(), Mode::CustomGet: the array `data` read into
    total     \* download_custom: the bytes read so far

vars == <<pc, mode, drv, drv0, claimed, handle, kbd, log, rets, ip, i, shorts,
          result, error, hargs, hdr, outbuf, total>>

-----------------------------------------------------------------------------
(* Bounds of the model *)

\* slots 0..MaxSlot are tried (the u8 slot argument; 5 and above are invalid)
MaxSlot == 5
\* custom profile contents 0..NumBuffers-1 are tried
NumBuffers == 2
\* at most this many interrupt transfers of one upload come back short
MaxShort == 1

-----------------------------------------------------------------------------
(* Program constants *)

KIND_PRESET == 8
KIND_CUSTOM_CONFIG == 18
\* // static KIND_READ_CONFIG: u8 = 0x92;
KIND_READ_CONFIG == 146
\* assert!(slot < 5)
NumSlots == 5
\* "33..37 are the custom-mode slots"
CustomModeBase == 51
\* for i in 0..8
NumChunks == 8
\* let end = start + 64; if tf != 64
ChunkLen == 64
\* write_interrupt(6, ...)
InterruptEndpoint == 6
\* let mut data = [0; 512]
ProfileLen == 512
bRequest == 9
wValue == 768
wIndex == 3
\* open_device_with_vid_pid(0x1044, 0x7a39)
VendorId == 4164
ProductId == 31289

Ifaces == {0, 3}
Byte == 0..255

\* enum Preset: discriminants
Preset ==
    [Static |-> 1, Breathing |-> 2, Wave |-> 3, FadeOnKeypress |-> 4,
     Marquee |-> 5, Ripple |-> 6, FlashOnKeypress |-> 7, Neon |-> 8,
     RainbowMarquee |-> 9, Raindrop |-> 10, CircleMarquee |-> 11,
     Hedge |-> 12, Rotate |-> 13]

\* enum Color: discriminants
Color ==
    [Rand |-> 0, Red |-> 1, Green |-> 2, Yellow |-> 3, Blue |-> 4,
     Orange |-> 5, Purple |-> 6, White |-> 7]

-----------------------------------------------------------------------------
(* u8 arithmetic *)

\* u8::wrapping_add
wrapping_add(a, b) == (a + b) % 256

\* bit k of x
Bit(x, k) == (x \div (2 ^ k)) % 2

\* the `!` operator on u8: every one of the 8 bits flipped
RECURSIVE NotBits(_, _)
NotBits(x, k) ==
    IF k = 8 THEN 0 ELSE (1 - Bit(x, k)) * (2 ^ k) + NotBits(x, k + 1)

\* arithmetic negation in place of the bitwise one
Not8_negated(x) == (256 - x) % 256
Not8(x) == NotBits(x, 0)

\* iter().take(n).fold(0, |sum, x| sum.wrapping_add(*x))
RECURSIVE FoldWrapping(_, _)
FoldWrapping(bytes, n) ==
    IF n = 0 \/ Len(bytes) = 0 THEN 0
    ELSE LET k == IF n < Len(bytes) THEN n ELSE Len(bytes)
         IN  wrapping_add(FoldWrapping(bytes, k - 1), bytes[k])

-----------------------------------------------------------------------------
(* struct Header and its codec *)

\* the fields in the order of the struct literal of Header::new
as_bytes_literal_order(h) ==
    <<h.kind, h.mode, h.speed_length, h.brightness, h.color,
      h.reserved, h.reserved2, h.checksum>>
\* Header::as_bytes: the #[repr(C, packed)] struct seen as [u8; 8], that is
\* the fields in their order of declaration
as_bytes(h) ==
    <<h.kind, h.reserved, h.mode, h.speed_length, h.brightness, h.color,
      h.reserved2, h.checksum>>

\* Header::new
Header_new(kind, m, speed_length, brightness, color) ==
    LET header == [kind |-> kind, mode |-> m, speed_length |-> speed_length,
                   brightness |-> brightness, color |-> color,
                   reserved |-> 0, reserved2 |-> 0, checksum |-> 0]
    IN  [header EXCEPT !.checksum = Not8(FoldWrapping(as_bytes(header), 7))]

-----------------------------------------------------------------------------
(* The inputs: what main() was asked to do *)

\* custom profile number k of n bytes (0-based offset j-1 at index j);
\* profile 0 is all zero, the others differ in every chunk
Buffer(k, n) ==
    [j \in 1..n |->
        IF k = 0 THEN 0
        ELSE ((j - 1) * (2 * k + 1) + ((j - 1) \div 256) + k) % 256]

\* brightness values tried: brightness.unwrap_or(0x50 / 3), and the maximum
Brights == {26, 50}
\* speed values tried: the default of main(), and the maximum
Speeds == {5, 10}
\* lengths of the data slice handed to upload_custom
Lens == {0, 200, ProfileLen, ProfileLen + ChunkLen}

NoOp ==
    [op |-> "none", preset |-> "Static", color |-> "Rand", speed |-> 0,
     brightness |-> 0, slot |-> 0, buf |-> 0, len |-> 0]

OpSetPreset(p, s, b, c) ==
    [NoOp EXCEPT !.op = "set_preset", !.preset = p, !.speed = s,
                 !.brightness = b, !.color = c]
OpSetCustom(slot, b) ==
    [NoOp EXCEPT !.op = "set_custom", !.slot = slot, !.brightness = b]
OpUploadCustom(slot, k, n) ==
    [NoOp EXCEPT !.op = "upload_custom", !.slot = slot, !.buf = k, !.len = n]

OpDownloadCustom(slot, k) ==
    [NoOp EXCEPT !.op = "download_custom", !.slot = slot, !.buf = k,
                 !.len = ProfileLen]

\* the arms of `match mode` in main(), each as the calls it makes in order
ModeNothing == {[m |-> "Nothing", prog |-> <<>>]}
ModeBrightness ==
    {[m |-> "Brightness", prog |-> <<[NoOp EXCEPT !.op = "unimplemented"]>>]}
ModePreset ==
    {[m |-> "Preset", prog |-> <<OpSetPreset(p, s, b, c)>>] :
        p \in DOMAIN Preset, s \in Speeds, b \in Brights, c \in DOMAIN Color}
ModeCustomSwitch ==
    {[m |-> "CustomSwitch", prog |-> <<OpSetCustom(slot, b)>>] :
        slot \in 0..(NumSlots - 1), b \in Brights}
ModeCustomSet ==
    {[m |-> "CustomSet",
      prog |-> <<[NoOp EXCEPT !.op = "file_open"],
                 [NoOp EXCEPT !.op = "read_exact"],
                 OpUploadCustom(slot, k, ProfileLen),
                 OpSetCustom(slot, b)>>] :
        slot \in 0..(NumSlots - 1), b \in {26}, k \in 0..(NumBuffers - 1)}
\* Mode::CustomGet; buf names the profile the keyboard holds in the slot
ModeCustomGet ==
    {[m |-> "CustomGet",
      prog |-> <<OpDownloadCustom(slot, NumBuffers - 1),
                 [NoOp EXCEPT !.op = "file_create"],
                 [NoOp EXCEPT !.op = "file_write"]>>] :
        slot \in {0, NumSlots - 1, MaxSlot}}

\* one call of a pub method with arguments of its whole parameter type:
\* any u8 slot, any slice
ModeApi ==
    {[m |-> "Api", prog |-> <<OpSetCustom(slot, b)>>] :
        slot \in 0..MaxSlot, b \in Brights}
    \cup
    {[m |-> "Api", prog |-> <<OpUploadCustom(slot, NumBuffers - 1, n)>>] :
        slot \in {0, NumSlots - 1, MaxSlot}, n \in Lens}

\* the set_preset calls made twice on one session
RepeatedPresets ==
    {OpSetPreset("Static", 5, 26, "Red"), OpSetPreset("Rotate", 10, 50, "Rand")}

\* several calls of the pub methods on one session: set_preset, something
\* or nothing, and the same set_preset again
ModeApiSeq ==
    {[m |-> "ApiSeq", prog |-> <<a>> \o mid \o <<a>>] :
        a \in RepeatedPresets,
        mid \in {<<>>,
                 <<OpSetPreset("Wave", 0, 50, "Blue")>>,
                 <<OpSetCustom(NumSlots - 1, 50)>>,
                 <<OpSetCustom(0, 26), OpSetPreset("Neon", 10, 0, "White")>>}}
    \cup
    {[m |-> "ApiSeq",
      prog |-> <<OpSetPreset("Static", 5, 26, "Red"),
                 OpUploadCustom(0, NumBuffers - 1, ProfileLen),
                 OpSetPreset("Static", 5, 26, "Red")>>]}

Modes ==
    ModeNothing \cup ModeBrightness \cup ModePreset \cup ModeCustomSwitch
    \cup ModeCustomSet \cup ModeCustomGet \cup ModeApi \cup ModeApiSeq

-----------------------------------------------------------------------------
(* Calls into the USB access layer, as recorded in log *)

\* the fields of a control transfer's setup packet, unset
NoSetup ==
    [direction |-> "none", request_type |-> "none", recipient |-> "none",
     request |-> -1, value |-> -1, index |-> -1, timeout |-> -1]

\* a: the interface, endpoint or vendor id the call names; res: what the
\* call returned; tf: the bytes a transfer reports moved (-1: not a transfer,
\* or no count returned)
Entry(op, a, setup, data, res, tf) ==
    [op |-> op, a |-> a, setup |-> setup, data |-> data, res |-> res,
     tf |-> tf]

\* libusb::request_type(Direction::Out, RequestType::Class,
\* Recipient::Interface), bRequest, wValue, wIndex, Duration::new(0, 0)
ControlSetup ==
    [direction |-> "Out", request_type |-> "Class", recipient |-> "Interface",
     request |-> bRequest, value |-> wValue, index |-> wIndex, timeout |-> 0]

\* an interrupt transfer has no setup packet, only the timeout
InterruptSetup == [NoSetup EXCEPT !.timeout = 0]

\* FusionKBD::write_control_kbd: the call it makes
write_control_kbd(header, res) ==
    Entry("write_control", 0, ControlSetup, as_bytes(header), res,
          IF res = "Ok" THEN Len(as_bytes(header)) ELSE -1)

\* self.handle.write_interrupt(6, &data[start..end], Duration::new(0, 0))
write_interrupt(data, start, end, res, tf) ==
    Entry("write_interrupt", InterruptEndpoint, InterruptSetup,
          SubSeq(data, start + 1, end), res, tf)

\* the endpoint of upload_custom, in the device-to-host direction
InterruptInEndpoint == 128 + InterruptEndpoint

\* an interrupt-in transfer into &mut data[start..end] that gave the bytes
\* got
read_interrupt(got, res, tf) ==
    Entry("read_interrupt", InterruptInEndpoint, InterruptSetup, got, res, tf)

Released == [j \in Ifaces |-> FALSE]

Init ==
    /\ pc = "ctx"
    /\ mode \in Modes
    /\ drv \in [Ifaces -> BOOLEAN]
    /\ drv0 = drv
    /\ claimed = Released
    /\ handle = "none"
    /\ kbd = "none"
    /\ log = <<>>
    /\ rets = <<>>
    /\ ip = 1
    /\ i = 0
    /\ shorts = 0
    /\ result = "running"
    /\ error = "none"
    /\ hargs = <<>>
    /\ hdr = <<>>
    \* let mut data: [u8; 512] = [0; 512];
    /\ outbuf = IF mode.m = "CustomGet" THEN [j \in 1..ProfileLen |-> 0]
                ELSE <<>>
    /\ total = 0

codec == <<hargs, hdr>>
reader == <<outbuf, total>>

-----------------------------------------------------------------------------
(* main(): set-up *)

\* what dropping the libusb::DeviceHandle leaves behind: the device is
\* closed, which gives up every claim the handle still holds
CloseHandle ==
    /\ handle' = "closed"
    /\ claimed' = Released

\* the libusb::Error values a failed detach_kernel_driver or
\* claim_interface reports: no permission, or held by another program
OpenErrors == {"Access", "Busy"}

\* Error::NoDevice returned where the code returns Error::Access
absent_device_error_no_device == "NoDevice"
\* FusionKBD::new, open_device_with_vid_pid gave None:
\* return Err(libusb::Error::Access)
absent_device_error == "Access"

\* main() ends without a FusionKBD value having been made: a panic, or the
\* error e returned through `?`
ExitNoSession(r, e) ==
    /\ result' = r
    /\ error' = e
    /\ pc' = "exit"

\* let context = libusb::Context::new()?;
ContextNew ==
    /\ pc = "ctx"
    /\ \E ok \in BOOLEAN :
          IF ok THEN /\ pc' = "open"
                     /\ UNCHANGED <<result, error>>
          ELSE ExitNoSession("Err", "Other")
    /\ UNCHANGED <<mode, drv, drv0, claimed, handle, kbd, log, rets, ip, i,
                   shorts, codec, reader>>

\* FusionKBD::new: context.open_device_with_vid_pid(0x1044, 0x7a39)
OpenDevice ==
    /\ pc = "open"
    /\ \E found \in BOOLEAN :
          /\ log' = Append(log, Entry("open_device", VendorId,
                                      [NoSetup EXCEPT !.value = ProductId],
                                      <<>>, IF found THEN "Some" ELSE "None", -1))
          /\ IF found THEN /\ handle' = "open"
                           /\ pc' = "q0"
                           /\ UNCHANGED <<result, error>>
             ELSE /\ ExitNoSession("Err", absent_device_error)
                  /\ UNCHANGED handle
    /\ UNCHANGED <<mode, drv, drv0, claimed, kbd, rets, ip, i, shorts, codec, reader>>

\* FusionKBD::new: handle.kernel_driver_active(ifc).unwrap(), the condition
\* of the `if` that guards the detach of interface ifc
kernel_driver_active(ifc, here, ifActive, ifNot) ==
    /\ pc = here
    /\ \E ok \in BOOLEAN :
          /\ log' = Append(log, Entry("kernel_driver_active", ifc, NoSetup, <<>>,
                                      IF ~ok THEN "Err"
                                      ELSE IF drv[ifc] THEN "true" ELSE "false",
                                      -1))
          /\ IF ok THEN /\ pc' = IF drv[ifc] THEN ifActive ELSE ifNot
                        /\ UNCHANGED <<result, error, handle, claimed>>
             ELSE \* unwrap() panics; unwinding drops the handle
                  /\ ExitNoSession("panic", "none")
                  /\ CloseHandle
    /\ UNCHANGED <<mode, drv, drv0, kbd, rets, ip, i, shorts, codec, reader>>

\* FusionKBD::new: handle.detach_kernel_driver(ifc)?;
detach_kernel_driver(ifc, here, next) ==
    /\ pc = here
    /\ \E ok \in BOOLEAN :
          /\ log' = Append(log, Entry("detach_kernel_driver", ifc, NoSetup, <<>>,
                                      IF ok THEN "Ok" ELSE "Err", -1))
          /\ IF ok THEN /\ drv' = [drv EXCEPT ![ifc] = FALSE]
                        /\ pc' = next
                        /\ UNCHANGED <<result, error, handle, claimed>>
             ELSE \* `?` returns the error; the handle is dropped
                  /\ \E e \in OpenErrors : ExitNoSession("Err", e)
                  /\ CloseHandle
                  /\ UNCHANGED drv
    /\ UNCHANGED <<mode, drv0, kbd, rets, ip, i, shorts, codec, reader>>

\* FusionKBD::new: handle.claim_interface(ifc)?; after the second claim,
\* Ok(FusionKBD { handle })
claim_interface(ifc, here, next) ==
    /\ pc = here
    /\ \E ok \in BOOLEAN :
          /\ log' = Append(log, Entry("claim_interface", ifc, NoSetup, <<>>,
                                      IF ok THEN "Ok" ELSE "Err", -1))
          /\ IF ok THEN /\ claimed' = [claimed EXCEPT ![ifc] = TRUE]
                        /\ pc' = next
                        /\ kbd' = IF next = "op" THEN "live" ELSE kbd
                        /\ UNCHANGED <<result, error, handle>>
             ELSE /\ \E e \in OpenErrors : ExitNoSession("Err", e)
                  /\ CloseHandle
                  /\ UNCHANGED kbd
    /\ UNCHANGED <<mode, drv, drv0, rets, ip, i, shorts, codec, reader>>

\* FusionKBD::new returning Ok once interface 0 is claimed
FusionKBD_new_claim_0_only ==
    \/ OpenDevice
    \/ kernel_driver_active(0, "q0", "d0", "q3")
    \/ detach_kernel_driver(0, "d0", "q3")
    \/ kernel_driver_active(3, "q3", "d3", "c0")
    \/ detach_kernel_driver(3, "d3", "c0")
    \/ claim_interface(0, "c0", "op")

\* the detach of interface 3 made whatever kernel_driver_active(3) says
FusionKBD_new_detach_3_always ==
    \/ OpenDevice
    \/ kernel_driver_active(0, "q0", "d0", "q3")
    \/ detach_kernel_driver(0, "d0", "q3")
    \/ kernel_driver_active(3, "q3", "d3", "d3")
    \/ detach_kernel_driver(3, "d3", "c0")
    \/ claim_interface(0, "c0", "c3")
    \/ claim_interface(3, "c3", "op")

\* FusionKBD::new, a call at a time
FusionKBD_new ==
    \/ OpenDevice
    \/ kernel_driver_active(0, "q0", "d0", "q3")
    \/ detach_kernel_driver(0, "d0", "q3")
    \/ kernel_driver_active(3, "q3", "d3", "c0")
    \/ detach_kernel_driver(3, "d3", "c0")
    \/ claim_interface(0, "c0", "c3")
    \/ claim_interface(3, "c3", "op")

-----------------------------------------------------------------------------
(* main(): the match on mode, and the methods of FusionKBD it calls *)

\* the operation main() is at
Cur == mode.prog[ip]

\* assert!(slot < 5) with one slot too many let through
slot_assertion_off_by_one(slot) == slot <= NumSlots
\* assert!(slot < 5)
slot_assertion(slot) == slot < NumSlots

\* set_preset with a header that carries a count of the calls made so far
preset_header_counting(preset, speed, brightness, color) ==
    Header_new(KIND_PRESET, Preset[preset], wrapping_add(speed, Len(rets)),
               brightness, Color[color])
\* set_preset with speed and brightness in each other's place
preset_header_swapped(preset, speed, brightness, color) ==
    Header_new(KIND_PRESET, Preset[preset], brightness, speed, Color[color])
\* set_preset: Header::new(KIND_PRESET, preset as u8, speed, brightness,
\* color as u8)
preset_header(preset, speed, brightness, color) ==
    Header_new(KIND_PRESET, Preset[preset], speed, brightness, Color[color])

\* set_custom without the offset of the custom-mode slots
custom_header_no_offset(slot, brightness) ==
    Header_new(KIND_PRESET, slot, 0, brightness, 0)
\* set_custom: Header::new(KIND_PRESET, 0x33 + slot, 0, brightness, 0)
custom_header(slot, brightness) ==
    Header_new(KIND_PRESET, wrapping_add(CustomModeBase, slot), 0,
               brightness, 0)

\* upload_custom announcing the profile with a header of the preset kind
upload_header_preset_kind(slot) ==
    Header_new(KIND_PRESET, slot, NumChunks, 0, 0)
\* upload_custom: Header::new(KIND_CUSTOM_CONFIG, slot, 0x08, 0x00, 0x00)
upload_header(slot) == Header_new(KIND_CUSTOM_CONFIG, slot, NumChunks, 0, 0)

\* chunks that overlap by one byte
chunk_start_overlapping(n) == n * (ChunkLen - 1)
\* upload_custom: let start = i * 64;
chunk_start(n) == n * ChunkLen
\* the end of the chunk cut down to the length of the slice
chunk_end_clamped(start) ==
    IF start + ChunkLen > Cur.len THEN Cur.len ELSE start + ChunkLen
\* upload_custom: let end = start + 64;
chunk_end(start) == start + ChunkLen

AtOp(name) ==
    /\ pc = "op"
    /\ ip <= Len(mode.prog)
    /\ Cur.op = name

\* the libusb::Error a failed transfer reports (one of them, for all)
TransferError == "Io"

\* the error main() returns when the step it is at fails: Error::Other
\* for the file, the transfer's own error through `?` otherwise
ErrorHere ==
    IF pc = "op" /\ ip <= Len(mode.prog)
       /\ Cur.op \in {"file_open", "file_create"}
    THEN "Other" ELSE TransferError

\* main() going on to its next step whatever the outcome of this one
Continue_whatever_the_outcome(r) ==
    /\ ip' = ip + 1
    /\ pc' = "op"
    /\ UNCHANGED <<result, error>>

\* a panic that ends the process at once, without unwinding
Continue_abort_on_panic(r) ==
    IF r = "Ok" THEN /\ ip' = ip + 1
                     /\ pc' = "op"
                     /\ UNCHANGED <<result, error>>
    ELSE /\ result' = r
         /\ error' = IF r = "Err" THEN ErrorHere ELSE error
         /\ pc' = IF r = "panic" THEN "exit" ELSE "r0"
         /\ UNCHANGED ip

\* what main() does with the outcome r of a step: go on after Ok; return the
\* error (`?`) or unwind (a panic) otherwise, which drops kbd
Continue(r) ==
    IF r = "Ok" THEN /\ ip' = ip + 1
                     /\ pc' = "op"
                     /\ UNCHANGED <<result, error>>
    ELSE /\ result' = r
         /\ error' = IF r = "Err" THEN ErrorHere ELSE error
         /\ pc' = "r0"
         /\ UNCHANGED ip

\* a method of FusionKBD returns r to main()
Return(fn, r) ==
    /\ rets' = Append(rets, [fn |-> fn, ret |-> r])
    /\ Continue(r)

\* FusionKBD::set_preset
set_preset ==
    /\ AtOp("set_preset")
    /\ \E res \in {"Ok", "Err"} :
          LET header == preset_header(Cur.preset, Cur.speed, Cur.brightness,
                                      Cur.color)
          IN  /\ log' = Append(log, write_control_kbd(header, res))
              /\ Return("set_preset", res)
    /\ UNCHANGED <<mode, drv, drv0, claimed, handle, kbd, i, shorts, codec, reader>>

\* FusionKBD::set_custom
set_custom ==
    /\ AtOp("set_custom")
    /\ IF ~slot_assertion(Cur.slot)
       THEN \* assert!(slot < 5) fails
            /\ Return("set_custom", "panic")
            /\ UNCHANGED log
       ELSE \E res \in {"Ok", "Err"} :
               LET header == custom_header(Cur.slot, Cur.brightness)
               IN  /\ log' = Append(log, write_control_kbd(header, res))
                   /\ Return("set_custom", res)
    /\ UNCHANGED <<mode, drv, drv0, claimed, handle, kbd, i, shorts, codec, reader>>

\* FusionKBD::upload_custom, up to the loop: the assertion and the header
upload_custom_header ==
    /\ AtOp("upload_custom")
    /\ IF ~slot_assertion(Cur.slot)
       THEN /\ Return("upload_custom", "panic")
            /\ UNCHANGED <<log, i, shorts>>
       ELSE \E res \in {"Ok", "Err"} :
               LET header == upload_header(Cur.slot)
               IN  /\ log' = Append(log, write_control_kbd(header, res))
                   /\ IF res = "Ok"
                      THEN /\ pc' = "chunk"
                           /\ i' = 0
                           /\ shorts' = 0
                           /\ UNCHANGED <<rets, ip, result, error>>
                      ELSE /\ Return("upload_custom", res)
                           /\ UNCHANGED <<i, shorts>>
    /\ UNCHANGED <<mode, drv, drv0, claimed, handle, kbd, codec, reader>>

\* the byte count a short interrupt transfer reports
ShortLens == {ChunkLen - 1}

\* the loop of upload_custom going on to the next chunk after a failed
\* write_interrupt
upload_custom_chunk_ignoring_errors ==
    /\ pc = "chunk"
    /\ i < NumChunks
    /\ LET start == chunk_start(i)
           end == chunk_end(start)
           data == Buffer(Cur.buf, Cur.len)
       IN  IF end > Len(data)
           THEN /\ Return("upload_custom", "panic")
                /\ UNCHANGED <<log, i, shorts>>
           ELSE \/ \E tf \in {ChunkLen} \cup
                             (IF shorts < MaxShort THEN ShortLens ELSE {}) :
                       /\ log' = Append(log,
                                   write_interrupt(data, start, end, "Ok", tf))
                       /\ shorts' = IF tf # ChunkLen THEN shorts + 1 ELSE shorts
                       /\ i' = i + 1
                       /\ UNCHANGED <<pc, rets, ip, result, error>>
                \/ /\ log' = Append(log,
                               write_interrupt(data, start, end, "Err", -1))
                   /\ i' = i + 1
                   /\ UNCHANGED <<pc, rets, ip, result, error, shorts>>
    /\ UNCHANGED <<mode, drv, drv0, claimed, handle, kbd, codec, reader>>

\* the loop of upload_custom giving up with an error on a short transfer
upload_custom_chunk_abort_on_short ==
    /\ pc = "chunk"
    /\ i < NumChunks
    /\ LET start == chunk_start(i)
           end == chunk_end(start)
           data == Buffer(Cur.buf, Cur.len)
       IN  IF end > Len(data)
           THEN /\ Return("upload_custom", "panic")
                /\ UNCHANGED <<log, i, shorts>>
           ELSE \/ /\ log' = Append(log, write_interrupt(data, start, end,
                                                         "Ok", ChunkLen))
                   /\ i' = i + 1
                   /\ UNCHANGED <<pc, rets, ip, result, error, shorts>>
                \/ \E tf \in (IF shorts < MaxShort THEN ShortLens ELSE {}) :
                       /\ log' = Append(log,
                                   write_interrupt(data, start, end, "Ok", tf))
                       /\ Return("upload_custom", "Err")
                       /\ UNCHANGED <<i, shorts>>
                \/ /\ log' = Append(log,
                               write_interrupt(data, start, end, "Err", -1))
                   /\ Return("upload_custom", "Err")
                   /\ UNCHANGED <<i, shorts>>
    /\ UNCHANGED <<mode, drv, drv0, claimed, handle, kbd, codec, reader>>

\* FusionKBD::upload_custom: one turn of `for i in 0..8`
upload_custom_chunk ==
    /\ pc = "chunk"
    /\ i < NumChunks
    /\ LET start == chunk_start(i)
           end == chunk_end(start)
           data == Buffer(Cur.buf, Cur.len)
       IN  IF end > Len(data)
           THEN \* &data[start..end] is out of range: the slice index panics
                /\ Return("upload_custom", "panic")
                /\ UNCHANGED <<log, i, shorts>>
           ELSE \/ \E tf \in {ChunkLen} \cup
                             (IF shorts < MaxShort THEN ShortLens ELSE {}) :
                       /\ log' = Append(log,
                                   write_interrupt(data, start, end, "Ok", tf))
                       \* if tf != 64 { eprintln!(...) }: the loop goes on
                       /\ shorts' = IF tf # ChunkLen THEN shorts + 1 ELSE shorts
                       /\ i' = i + 1
                       /\ UNCHANGED <<pc, rets, ip, result, error>>
                \/ /\ log' = Append(log,
                               write_interrupt(data, start, end, "Err", -1))
                   /\ Return("upload_custom", "Err")
                   /\ UNCHANGED <<i, shorts>>
    /\ UNCHANGED <<mode, drv, drv0, claimed, handle, kbd, codec, reader>>

\* FusionKBD::upload_custom: after the loop, Ok(())
upload_custom_return ==
    /\ pc = "chunk"
    /\ i = NumChunks
    /\ Return("upload_custom", "Ok")
    /\ UNCHANGED <<mode, drv, drv0, claimed, handle, kbd, log, i, shorts,
                   codec, reader>>

\* download_custom: the header that selects read mode, as upload_custom's
\* with KIND_READ_CONFIG
download_header(slot) == Header_new(KIND_READ_CONFIG, slot, NumChunks, 0, 0)

\* download_custom reporting success whatever the length read
download_result_unchecked(n) == "Ok"
\* download_custom: success only when the total length read is 512
download_result(n) == IF n = ProfileLen THEN "Ok" ELSE "Err"

\* download_custom, up to the loop: the assertion and the header
download_custom_header ==
    /\ AtOp("download_custom")
    /\ IF ~slot_assertion(Cur.slot)
       THEN /\ Return("download_custom", "panic")
            /\ UNCHANGED <<log, i, shorts, total>>
       ELSE \E res \in {"Ok", "Err"} :
               LET header == download_header(Cur.slot)
               IN  /\ log' = Append(log, write_control_kbd(header, res))
                   /\ IF res = "Ok"
                      THEN /\ pc' = "rchunk"
                           /\ i' = 0
                           /\ shorts' = 0
                           /\ total' = 0
                           /\ UNCHANGED <<rets, ip, result, error>>
                      ELSE /\ Return("download_custom", res)
                           /\ UNCHANGED <<i, shorts, total>>
    /\ UNCHANGED <<mode, drv, drv0, claimed, handle, kbd, codec, outbuf>>

\* download_custom: one of the 8 sequential 64-byte interrupt-in transfers
download_custom_chunk ==
    /\ pc = "rchunk"
    /\ i < NumChunks
    /\ LET start == chunk_start(i)
           stored == Buffer(Cur.buf, ProfileLen)
       IN  \/ \E tf \in {ChunkLen} \cup
                         (IF shorts < MaxShort THEN ShortLens ELSE {}) :
                  /\ log' = Append(log,
                        read_interrupt(SubSeq(stored, start + 1, start + tf),
                                       "Ok", tf))
                  /\ outbuf' = [j \in 1..Len(outbuf) |->
                                  IF start < j /\ j <= start + tf
                                  THEN stored[j] ELSE outbuf[j]]
                  /\ total' = total + tf
                  /\ shorts' = IF tf # ChunkLen THEN shorts + 1 ELSE shorts
                  /\ i' = i + 1
                  /\ UNCHANGED <<pc, rets, ip, result, error>>
           \/ /\ log' = Append(log, read_interrupt(<<>>, "Err", -1))
              /\ Return("download_custom", "Err")
              /\ UNCHANGED <<i, shorts, outbuf, total>>
    /\ UNCHANGED <<mode, drv, drv0, claimed, handle, kbd, codec>>

\* download_custom: after the loop, the total length read is validated
download_custom_return ==
    /\ pc = "rchunk"
    /\ i = NumChunks
    /\ Return("download_custom", download_result(total))
    /\ UNCHANGED <<mode, drv, drv0, claimed, handle, kbd, log, i, shorts,
                   codec, reader>>

\* main(), Mode::CustomGet: File::create(&config); on Err, return Err(Other)
file_create ==
    /\ AtOp("file_create")
    /\ \E r \in {"Ok", "Err"} : Continue(r)
    /\ UNCHANGED <<mode, drv, drv0, claimed, handle, kbd, log, rets, i,
                   shorts, codec, reader>>

\* main(), Mode::CustomGet: f.write(&data).unwrap()
file_write ==
    /\ AtOp("file_write")
    /\ \E r \in {"Ok", "panic"} : Continue(r)
    /\ UNCHANGED <<mode, drv, drv0, claimed, handle, kbd, log, rets, i,
                   shorts, codec, reader>>

\* main(), Mode::CustomSet: File::open(&config); on Err, return Err(Other)
file_open ==
    /\ AtOp("file_open")
    /\ \E r \in {"Ok", "Err"} : Continue(r)
    /\ UNCHANGED <<mode, drv, drv0, claimed, handle, kbd, log, rets, i,
                   shorts, codec, reader>>

\* main(), Mode::CustomSet: f.read_exact(&mut data).unwrap()
read_exact ==
    /\ AtOp("read_exact")
    /\ \E r \in {"Ok", "panic"} : Continue(r)
    /\ UNCHANGED <<mode, drv, drv0, claimed, handle, kbd, log, rets, i,
                   shorts, codec, reader>>

\* main(), Mode::Brightness: unimplemented!()
unimplemented ==
    /\ AtOp("unimplemented")
    /\ Continue("panic")
    /\ UNCHANGED <<mode, drv, drv0, claimed, handle, kbd, log, rets, i,
                   shorts, codec, reader>>

\* main(): the match arm is through; Ok(())
main_return ==
    /\ pc = "op"
    /\ ip > Len(mode.prog)
    /\ result' = "Ok"
    /\ UNCHANGED error
    /\ pc' = "r0"
    /\ UNCHANGED <<mode, drv, drv0, claimed, handle, kbd, log, rets, ip, i,
                   shorts, codec, reader>>

-----------------------------------------------------------------------------
(* impl Drop for FusionKBD *)

\* let _ = self.handle.release_interface(ifc);
release_interface(ifc, here, next) ==
    /\ pc = here
    /\ \E ok \in BOOLEAN :
          /\ log' = Append(log, Entry("release_interface", ifc, NoSetup, <<>>,
                                      IF ok THEN "Ok" ELSE "Err", -1))
          /\ claimed' = IF ok THEN [claimed EXCEPT ![ifc] = FALSE] ELSE claimed
    /\ pc' = next
    /\ UNCHANGED <<mode, drv, drv0, handle, kbd, rets, ip, i, shorts, result,
                   error, codec, reader>>

\* let _ = self.handle.attach_kernel_driver(ifc); the driver cannot be
\* attached while the interface is still claimed.  After the last call the
\* handle field is dropped.
attach_kernel_driver(ifc, here, next) ==
    /\ pc = here
    /\ \E ok \in (IF claimed[ifc] THEN {FALSE} ELSE BOOLEAN) :
          /\ log' = Append(log, Entry("attach_kernel_driver", ifc, NoSetup, <<>>,
                                      IF ok THEN "Ok" ELSE "Err", -1))
          /\ drv' = IF ok THEN [drv EXCEPT ![ifc] = TRUE] ELSE drv
    /\ pc' = next
    /\ IF next = "exit" THEN /\ kbd' = "dropped"
                             /\ CloseHandle
       ELSE UNCHANGED <<kbd, handle, claimed>>
    /\ UNCHANGED <<mode, drv0, rets, ip, i, shorts, result, error, codec, reader>>

\* interface 0 released and re-attached before interface 3 is released
drop_one_interface_at_a_time ==
    \/ release_interface(0, "r0", "a0")
    \/ attach_kernel_driver(0, "a0", "r3")
    \/ release_interface(3, "r3", "a3")
    \/ attach_kernel_driver(3, "a3", "exit")

\* the second attach names interface 0 again
drop_attach_0_twice ==
    \/ release_interface(0, "r0", "r3")
    \/ release_interface(3, "r3", "a0")
    \/ attach_kernel_driver(0, "a0", "a3")
    \/ attach_kernel_driver(0, "a3", "exit")

drop ==
    \/ release_interface(0, "r0", "r3")
    \/ release_interface(3, "r3", "a0")
    \/ attach_kernel_driver(0, "a0", "a3")
    \/ attach_kernel_driver(3, "a3", "exit")

-----------------------------------------------------------------------------

Next ==
    \/ ContextNew
    \/ FusionKBD_new
    \/ set_preset
    \/ set_custom
    \/ upload_custom_header
    \/ upload_custom_chunk
    \/ upload_custom_return
    \/ download_custom_header
    \/ download_custom_chunk
    \/ download_custom_return
    \/ file_create
    \/ file_write
    \/ file_open
    \/ read_exact
    \/ unimplemented
    \/ main_return
    \/ drop

Spec == Init /\ [][Next]_vars

-----------------------------------------------------------------------------
(* The codec on its own: Header::new and as_bytes over byte arguments *)

\* byte values tried in every argument at once
SampleBytes == {0, 1, 2, 5, 8, 50, 128, 255}

\* (kind, mode, speed_length, brightness, color): every combination of the
\* sample bytes, and every byte value in each argument in turn
HeaderInputs ==
    (SampleBytes \X SampleBytes \X SampleBytes \X SampleBytes \X SampleBytes)
    \cup
    {[<<8, 1, 5, 50, 2>> EXCEPT ![f] = b] : f \in 1..5, b \in Byte}

CodecInit ==
    /\ pc = "codec"
    /\ hargs \in HeaderInputs
    /\ hdr = <<>>
    /\ mode = [m |-> "Nothing", prog |-> <<>>]
    /\ drv = [j \in Ifaces |-> TRUE]
    /\ drv0 = drv
    /\ claimed = Released
    /\ handle = "none"
    /\ kbd = "none"
    /\ log = <<>>
    /\ rets = <<>>
    /\ ip = 1
    /\ i = 0
    /\ shorts = 0
    /\ result = "running"
    /\ error = "none"
    /\ outbuf = <<>>
    /\ total = 0

\* Header::new(...) and then as_bytes() of the result
BuildHeader ==
    /\ pc = "codec"
    /\ hdr' = as_bytes(Header_new(hargs[1], hargs[2], hargs[3], hargs[4],
                                  hargs[5]))
    /\ pc' = "codec_done"
    /\ UNCHANGED <<mode, drv, drv0, claimed, handle, kbd, log, rets, ip, i,
                   shorts, result, error, hargs, reader>>

CodecNext == BuildHeader

CodecSpec == CodecInit /\ [][CodecNext]_vars

-----------------------------------------------------------------------------
(* Reading the log *)

IsTransfer(e) ==
    e.op \in {"write_control", "write_interrupt", "read_interrupt"}

\* the control and interrupt transfers issued so far, in order
Transfers == SelectSeq(log, IsTransfer)

\* positions of log holding a call of op on interface (or endpoint) a
Calls(op, a) == {k \in 1..Len(log) : log[k].op = op /\ log[k].a = a}

\* the interrupt transfers issued so far
Interrupts == {k \in 1..Len(log) : log[k].op = "write_interrupt"}

\* the operations of the run that are calls of method fn
OpsOf(fn) == {k \in 1..Len(mode.prog) : mode.prog[k].op = fn}

\* the first method called has returned r
FirstReturned(fn, r) == rets # <<>> /\ rets[1] = [fn |-> fn, ret |-> r]

\* FusionKBD::new returned Ok: its last call, the claim of interface 3, did
Opened == \E k \in Calls("claim_interface", 3) : log[k].res = "Ok"

\* bytes 0..6 of a transmitted header
Fields(e) == SubSeq(e.data, 1, 7)

-----------------------------------------------------------------------------
(* Claims *)

\* C1: for slot < 5 and a 512-byte buffer, an upload_custom whose transfers
\* all succeed has issued exactly one control transfer, carrying the header
\* (0x12, slot, 8, 0, 0), and then exactly 8 interrupt transfers to endpoint
\* 6, the i-th carrying bytes [64*i, 64*i+64) of the buffer: together the
\* 512 bytes, no overlap, no gap.
C1_UploadIssuesHeaderThenEightChunks ==
    \A k \in (IF mode.m = "ApiSeq" THEN {} ELSE OpsOf("upload_custom")) :
        LET o == mode.prog[k]
            t == Transfers
            data == Buffer(o.buf, o.len)
        IN  (o.slot < 5 /\ o.len = 512 /\ FirstReturned("upload_custom", "Ok"))
            =>
            /\ Len(t) >= 9
            /\ t[1].op = "write_control"
            /\ Fields(t[1]) = <<18, 0, o.slot, 8, 0, 0, 0>>
            /\ \A c \in 0..7 :
                  /\ t[c + 2].op = "write_interrupt"
                  /\ t[c + 2].a = 6
                  /\ Len(t[c + 2].data) = 64
                  /\ \A j \in 1..64 : t[c + 2].data[j] = data[64 * c + j]
            /\ Cardinality(Interrupts) = 8
            /\ \A n \in 10..Len(t) :
                  t[n].op = "write_control" /\ t[n].data[1] # 18

C1_Witness ==
    /\ mode.m = "Api"
    /\ OpsOf("upload_custom") = {1}
    /\ mode.prog[1].slot = 4
    /\ mode.prog[1].len = 512
    /\ mode.prog[1].buf = 1
    /\ FirstReturned("upload_custom", "Ok")
    /\ Len(Transfers) = 9
    /\ \A n \in 1..9 : Transfers[n].res = "Ok"
    /\ \A n \in 2..9 : Transfers[n].tf = 64
    /\ Transfers[9].data[64] = Buffer(1, 512)[512]

\* C2: byte 7 of a header built by Header::new is 0xFF - ((b0+...+b6) mod
\* 256) over its first 7 bytes, and (b0+...+b6+checksum) mod 256 = 0xFF;
\* build(0x08, 0x01, 0x05, 0x32, 0x02) has checksum 0xBD.
C2_ChecksumIsOnesComplementOfSum ==
    pc = "codec_done" =>
        LET sum == hdr[1] + hdr[2] + hdr[3] + hdr[4] + hdr[5] + hdr[6] + hdr[7]
        IN  /\ hdr[8] = 255 - (sum % 256)
            /\ (sum + hdr[8]) % 256 = 255
            /\ hargs = <<8, 1, 5, 50, 2>> => hdr[8] = 189

C2_Witness ==
    /\ pc = "codec_done"
    /\ hargs = <<8, 1, 5, 50, 2>>
    /\ hdr = <<8, 0, 1, 5, 50, 2, 0, 189>>

\* C3: the serialized header is exactly 8 bytes, [kind, reserved, mode,
\* speed_or_length, brightness, color, reserved2, checksum]: bytes 1 and 6
\* are 0x00 and bytes 0, 2, 3, 4, 5 are the arguments unchanged.
C3_HeaderLayout ==
    pc = "codec_done" =>
        /\ Len(hdr) = 8
        /\ hdr[1] = hargs[1]
        /\ hdr[2] = 0
        /\ hdr[3] = hargs[2]
        /\ hdr[4] = hargs[3]
        /\ hdr[5] = hargs[4]
        /\ hdr[6] = hargs[5]
        /\ hdr[7] = 0
        /\ hdr[8] \in Byte

C3_Witness ==
    /\ pc = "codec_done"
    /\ hargs = <<255, 128, 50, 5, 1>>
    /\ SubSeq(hdr, 1, 7) = <<255, 0, 128, 50, 5, 1, 0>>

\* C4: for slot >= 5, set_custom and upload_custom fail the assertion (they
\* never return Ok or Err) and no control or interrupt transfer is issued.
C4_BadSlotNoTransfer ==
    \A k \in OpsOf("set_custom") \cup OpsOf("upload_custom") :
        mode.prog[k].slot >= 5 =>
            /\ Transfers = <<>>
            /\ \A n \in 1..Len(rets) : rets[n].ret = "panic"
            /\ pc \in {"r0", "r3", "a0", "a3", "exit"} /\ Opened
               => rets = <<[fn |-> mode.prog[k].op, ret |-> "panic"]>>

C4_Witness ==
    /\ mode.m = "Api"
    /\ mode.prog[1].op = "upload_custom"
    /\ mode.prog[1].slot >= 5
    /\ rets = <<[fn |-> "upload_custom", ret |-> "panic"]>>
    /\ Transfers = <<>>
    /\ pc = "exit"

\* C5: a FusionKBD::new that fails at a detach or claim step leaves no
\* interface claimed and no kernel driver detached that was bound before.
C5_FailedOpenRollsBack ==
    (pc = "exit" /\ ~Opened /\ handle = "closed"
     /\ \E k \in 1..Len(log) :
           /\ log[k].op \in {"detach_kernel_driver", "claim_interface"}
           /\ log[k].res = "Err")
    =>
    /\ \A j \in Ifaces : ~claimed[j]
    /\ \A j \in Ifaces : drv0[j] => drv[j]

\* C6: once FusionKBD::new has succeeded, whatever operation follows and
\* however it ends (Ok, a transfer error, a failed assertion), by the time
\* main() has exited the release of interfaces 0 and 3 and the attach
\* attempts for interfaces 0 and 3 have been made.
C6_TeardownOnEveryExit ==
    (pc = "exit" /\ Opened) =>
        LET open == CHOOSE k \in Calls("claim_interface", 3) : log[k].res = "Ok"
        IN  \A j \in Ifaces :
               /\ \E k \in Calls("release_interface", j) : k > open
               /\ \E k \in Calls("attach_kernel_driver", j) : k > open

C6_Witness ==
    /\ pc = "exit"
    /\ Opened
    /\ result = "panic"
    /\ mode.m = "Api"
    /\ rets = <<[fn |-> "set_custom", ret |-> "panic"]>>
    /\ \A j \in Ifaces : Calls("release_interface", j) # {}
    /\ \A j \in Ifaces : Calls("attach_kernel_driver", j) # {}

\* the FusionKBD has been dropped and every release and attach call made
\* returned Ok
CleanupSucceeded ==
    /\ pc = "exit"
    /\ kbd = "dropped"
    /\ \A k \in 1..Len(log) :
          log[k].op \in {"release_interface", "attach_kernel_driver"}
          => log[k].res = "Ok"

\* C7 as stated: after an open and a teardown whose cleanup calls all
\* succeed, interfaces 0 and 3 are unclaimed and on each of them the kernel
\* driver is attached exactly when it was attached before the open.
C7_DriverStateRestored ==
    CleanupSucceeded =>
        /\ \A j \in Ifaces : ~claimed[j]
        /\ \A j \in Ifaces : drv[j] = drv0[j]

\* C7 as amended: after an open and a teardown whose cleanup calls all
\* succeed, interfaces 0 and 3 are unclaimed and the kernel driver is
\* attached on both, whether or not it was attached before the open.
C7_DriverAttachedAfterTeardown ==
    CleanupSucceeded =>
        /\ \A j \in Ifaces : ~claimed[j]
        /\ \A j \in Ifaces : drv[j]

C7_Witness ==
    /\ CleanupSucceeded
    /\ drv0 = [j \in Ifaces |-> j = 0]
    /\ Calls("detach_kernel_driver", 0) # {}
    /\ Calls("detach_kernel_driver", 3) = {}
    /\ drv = [j \in Ifaces |-> TRUE]

\* C8: set_preset issues exactly one control transfer and no interrupt
\* transfer: out, class, interface recipient, request 0x09, value 0x0300,
\* index 0x0003, no timeout, carrying the 8-byte header (0x08, the preset's
\* code, speed, brightness, the color's code); it returns Ok exactly when
\* that transfer call does.
C8_SetPresetOneControlTransfer ==
    \A k \in (IF Len(mode.prog) = 1 THEN OpsOf("set_preset") ELSE {}) :
        LET o == mode.prog[k]
            t == Transfers
        IN  /\ Len(t) <= 1
            /\ Interrupts = {}
            /\ rets # <<>> =>
                  /\ Len(t) = 1
                  /\ t[1].op = "write_control"
                  /\ t[1].setup =
                        [direction |-> "Out", request_type |-> "Class",
                         recipient |-> "Interface", request |-> 9,
                         value |-> 768, index |-> 3, timeout |-> 0]
                  /\ Len(t[1].data) = 8
                  /\ Fields(t[1]) = <<8, 0, Preset[o.preset], o.speed,
                                      o.brightness, Color[o.color], 0>>
                  /\ rets = <<[fn |-> "set_preset", ret |-> t[1].res]>>
            /\ t # <<>> => rets # <<>>

C8_Witness ==
    /\ mode.m = "Preset"
    /\ mode.prog[1].preset = "Rotate"
    /\ mode.prog[1].color = "White"
    /\ mode.prog[1].speed = 10
    /\ mode.prog[1].brightness = 26
    /\ rets = <<[fn |-> "set_preset", ret |-> "Ok"]>>
    /\ Len(Transfers) = 1
    /\ Fields(Transfers[1]) = <<8, 0, 13, 10, 26, 7, 0>>

\* C9: for slot < 5, set_custom(slot, brightness) issues exactly one control
\* transfer and no interrupt transfer, carrying the header (0x08, 0x33 +
\* slot, 0, brightness, 0), its mode in 0x33..0x37.
C9_SetCustomOneControlTransfer ==
    \A k \in (IF mode.m = "ApiSeq" THEN {} ELSE OpsOf("set_custom")) :
        LET o == mode.prog[k]
            t == Transfers
            \* what came before set_custom in the run: nothing, or an upload
            before == IF OpsOf("upload_custom") = {} THEN 0 ELSE 9
            after == rets # <<>> /\ rets[Len(rets)].fn = "set_custom"
        IN  o.slot < 5 =>
            /\ after =>
                  /\ Len(t) = before + 1
                  /\ t[Len(t)].op = "write_control"
                  /\ Len(t[Len(t)].data) = 8
                  /\ Fields(t[Len(t)]) = <<8, 0, 51 + o.slot, 0, o.brightness, 0, 0>>
                  /\ t[Len(t)].data[3] \in 51..55
                  /\ Cardinality(Interrupts) = IF before = 0 THEN 0 ELSE 8
                  /\ rets[Len(rets)].ret = t[Len(t)].res
            /\ ~after => Len(t) <= before

C9_Witness ==
    /\ mode.m = "CustomSwitch"
    /\ mode.prog[1].slot = 4
    /\ mode.prog[1].brightness = 50
    /\ rets = <<[fn |-> "set_custom", ret |-> "Ok"]>>
    /\ Len(Transfers) = 1
    /\ Fields(Transfers[1]) = <<8, 0, 55, 0, 50, 0, 0>>

\* kernel_driver_active(j) has returned true
ReportedActive(j) ==
    \E k \in Calls("kernel_driver_active", j) : log[k].res = "true"

\* C10: during open, for each interface i of 0 and 3 on its own,
\* detach_kernel_driver(i) is called if and only if kernel_driver_active(i)
\* reported the driver active; with the driver on interface 0 inactive the
\* detach of interface 0 is skipped and interface 3 is still examined, and
\* detached if its driver is active.
C10_DetachIffDriverActive ==
    /\ \A j \in Ifaces :
          /\ Calls("detach_kernel_driver", j) # {} => ReportedActive(j)
          /\ (ReportedActive(j) /\ pc # (IF j = 0 THEN "d0" ELSE "d3"))
             => Cardinality(Calls("detach_kernel_driver", j)) = 1
    /\ (\E k \in Calls("kernel_driver_active", 0) : log[k].res = "false")
       => /\ Calls("detach_kernel_driver", 0) = {}
          /\ pc # "q3" => Calls("kernel_driver_active", 3) # {}

C10_Witness ==
    /\ \E k \in Calls("kernel_driver_active", 0) : log[k].res = "false"
    /\ Calls("detach_kernel_driver", 0) = {}
    /\ ReportedActive(3)
    /\ Calls("detach_kernel_driver", 3) # {}

\* C11: two set_preset calls on one session with identical arguments send
\* byte-identical 8-byte headers, whatever was called in between.
C11_RepeatedPresetSameHeader ==
    LET n == Len(mode.prog)
        t == Transfers
    IN  (/\ mode.m = "ApiSeq"
         /\ mode.prog[1].op = "set_preset"
         /\ mode.prog[n] = mode.prog[1]
         /\ Len(rets) = n)
        =>
        /\ Len(t) >= 2
        /\ t[1].op = "write_control"
        /\ t[Len(t)].op = "write_control"
        /\ Len(t[1].data) = 8
        /\ t[Len(t)].data = t[1].data

C11_Witness ==
    /\ mode.m = "ApiSeq"
    /\ Len(mode.prog) = 4
    /\ mode.prog[1] = OpSetPreset("Rotate", 10, 50, "Rand")
    /\ Len(rets) = 4
    /\ Len(Transfers) = 4
    /\ Transfers[4].data = Transfers[1].data
    /\ Transfers[2].data # Transfers[1].data
    /\ Transfers[3].data # Transfers[1].data

\* the run ended where open_device_with_vid_pid found no device
DeviceAbsent ==
    /\ pc = "exit"
    /\ log # <<>>
    /\ log[Len(log)].op = "open_device"
    /\ log[Len(log)].res = "None"

\* C12 as stated: with no device 0x1044:0x7a39 present, open fails with an
\* error distinct from the ones a failed detach or claim reports, and makes no
\* detach, claim or transfer call.
C12_AbsentDeviceDistinctError ==
    DeviceAbsent =>
        /\ result = "Err"
        /\ error \notin OpenErrors
        /\ Len(log) = 1

\* C12 as amended: with no device present, open fails with
\* libusb::Error::Access, the value a detach or claim refused for lack of
\* permission reports too, and makes no detach, claim or transfer call.
C12_AbsentDeviceAccessError ==
    DeviceAbsent =>
        /\ result = "Err"
        /\ error = "Access"
        /\ Len(log) = 1
        /\ log[1].a = VendorId
        /\ log[1].setup.value = ProductId
        /\ kbd = "none"

C12_Witness ==
    /\ DeviceAbsent
    /\ result = "Err"
    /\ error = "Access"
    /\ Transfers = <<>>

\* the control transfers of kind 0x08 that went through, oldest first
ModeSelections ==
    SelectSeq(log, LAMBDA e : /\ e.op = "write_control"
                              /\ e.res = "Ok"
                              /\ e.data[1] = KIND_PRESET)

\* the lighting mode the keyboard was last told to show: the mode byte of the
\* last kind-0x08 header it took, -1 while it was told nothing
ActiveMode ==
    IF ModeSelections = <<>> THEN -1
    ELSE ModeSelections[Len(ModeSelections)].data[3]

\* upload_custom is running, or about to be called
InUpload == pc = "chunk" \/ AtOp("upload_custom")

\* C13: no step of upload_custom sends a header of kind 0x08, so the active
\* mode after it is the one before it; a custom slot is active only once a
\* set_custom returned Ok.
C13_UploadKeepsActiveMode ==
    /\ [][InUpload =>
            /\ ActiveMode' = ActiveMode
            /\ ModeSelections' = ModeSelections
            /\ \A k \in (Len(log) + 1)..Len(log') :
                  log'[k].op = "write_control"
                  => log'[k].data[1] = KIND_CUSTOM_CONFIG]_vars
    /\ [](ActiveMode >= CustomModeBase
            => \E k \in 1..Len(rets) :
                  rets[k] = [fn |-> "set_custom", ret |-> "Ok"])

C13_Witness ==
    /\ mode.m = "ApiSeq"
    /\ Len(rets) = 2
    /\ rets[1] = [fn |-> "set_preset", ret |-> "Ok"]
    /\ rets[2] = [fn |-> "upload_custom", ret |-> "Ok"]
    /\ Len(Transfers) = 2 + NumChunks
    /\ ActiveMode = Preset.Static

\* the interrupt-in transfers made, oldest first
Reads == SelectSeq(log, LAMBDA e : e.op = "read_interrupt")

\* download_custom was called in this run and has returned r
DownloadReturned(r) ==
    /\ mode.m = "CustomGet"
    /\ rets = <<[fn |-> "download_custom", ret |-> r]>>

\* C14: download_custom mirrors upload_custom: for slot < 5, one control
\* transfer with the read-mode header, then the 64-byte interrupt-in
\* transfers in order, each filling its own part of outBuffer; it returns Ok
\* only when 8 of them were made and the total length read is 512.
C14_DownloadMirrorsUpload ==
    LET t == Transfers
        slot == mode.prog[1].slot
        stored == Buffer(mode.prog[1].buf, ProfileLen)
    IN  mode.m = "CustomGet" =>
        /\ slot >= NumSlots => t = <<>>
        /\ t # <<>> =>
              /\ t[1].op = "write_control"
              /\ t[1].setup = ControlSetup
              /\ t[1].data = as_bytes(download_header(slot))
              /\ t[1].data[1] = KIND_READ_CONFIG
              /\ t[1].data[3] = slot
        /\ Len(t) <= 1 + NumChunks
        /\ \A k \in 2..Len(t) :
              /\ t[k].op = "read_interrupt"
              /\ t[k].a = InterruptInEndpoint
              /\ t[k - 1].res = "Ok"
              /\ t[k].res = "Ok" =>
                    /\ t[k].tf <= ChunkLen
                    /\ t[k].data = SubSeq(stored, (k - 2) * ChunkLen + 1,
                                          (k - 2) * ChunkLen + t[k].tf)
                    /\ SubSeq(outbuf, (k - 2) * ChunkLen + 1,
                              (k - 2) * ChunkLen + t[k].tf) = t[k].data
        /\ DownloadReturned("Ok") =>
              /\ slot < NumSlots
              /\ Len(t) = 1 + NumChunks
              /\ \A k \in 1..Len(t) : t[k].res = "Ok"
              /\ \A k \in 2..Len(t) : t[k].tf = ChunkLen
              /\ total = ProfileLen
              /\ outbuf = stored
        /\ (/\ DownloadReturned("Err")
            /\ \A k \in 1..Len(t) : t[k].res = "Ok") =>
              /\ Len(t) = 1 + NumChunks
              /\ total < ProfileLen
              /\ \E k \in 2..Len(t) : t[k].tf < ChunkLen

C14_Witness ==
    /\ DownloadReturned("Ok")
    /\ mode.prog[1].slot = NumSlots - 1
    /\ Len(Reads) = NumChunks
    /\ total = ProfileLen
    /\ outbuf = Buffer(NumBuffers - 1, ProfileLen)
    /\ outbuf[2] # 0
    /\ pc = "exit"
    /\ result = "Ok"

\* upload_custom has returned r, as the last method to return so far
UploadReturned(r) ==
    /\ rets # <<>>
    /\ rets[Len(rets)] = [fn |-> "upload_custom", ret |-> r]

\* C15: a failed transfer ends the operation at once: no transfer follows it.
\* In upload_custom a failed control transfer leaves no interrupt transfer,
\* a failed transfer of chunk k leaves exactly chunks 0..k-1 sent before it,
\* and the error is what upload_custom and then main() return.
C15_TransferFailureAborts ==
    LET t == Transfers
        n == Len(t)
    IN  /\ \A k \in 1..n : t[k].res = "Err" => k = n
        /\ (/\ mode.m \in {"CustomSet", "Api"}
            /\ OpsOf("upload_custom") # {}
            /\ n >= 1 /\ n <= 1 + NumChunks
            /\ t[n].res = "Err")
           =>
           LET up == mode.prog[CHOOSE k \in OpsOf("upload_custom") : TRUE]
               data == Buffer(up.buf, up.len)
           IN  /\ UploadReturned("Err")
               /\ t[1].op = "write_control"
               /\ t[1].data[1] = KIND_CUSTOM_CONFIG
               /\ \A k \in 2..n :
                     /\ t[k].op = "write_interrupt"
                     /\ t[k].data = SubSeq(data, chunk_start(k - 2) + 1,
                                           chunk_end(chunk_start(k - 2)))
               /\ \A k \in 1..(n - 1) : t[k].res = "Ok"
               /\ pc \in {"r0", "r3", "a0", "a3", "exit"}
               /\ result = "Err"
               /\ error = TransferError

C15_Witness ==
    /\ mode.m = "CustomSet"
    /\ Len(Transfers) = 5
    /\ Transfers[5].op = "write_interrupt"
    /\ Transfers[5].res = "Err"
    /\ Transfers[4].res = "Ok"
    /\ UploadReturned("Err")
    /\ pc = "exit"
    /\ result = "Err"

\* transfer k of the run is an interrupt transfer that went through but moved
\* fewer than 64 bytes
ShortAt(k) ==
    /\ Transfers[k].op = "write_interrupt"
    /\ Transfers[k].res = "Ok"
    /\ Transfers[k].tf < ChunkLen

\* C16: a short interrupt transfer does not end upload_custom: the chunk is
\* not sent again, the next chunks follow in order, and upload_custom returns
\* Ok when no transfer call fails.
C16_ShortTransferGoesOn ==
    LET t == Transfers
        n == Len(t)
        last == 1 + NumChunks
    IN  (/\ mode.m \in {"CustomSet", "Api"}
         /\ OpsOf("upload_custom") # {})
        =>
        LET up == mode.prog[CHOOSE k \in OpsOf("upload_custom") : TRUE]
            data == Buffer(up.buf, up.len)
        IN  up.len >= ProfileLen =>
            \A k \in 2..n : ShortAt(k) =>
                /\ (k = n /\ k < last) =>
                      /\ pc = "chunk"
                      /\ i = k - 1
                      /\ rets = <<>>
                /\ (k < n /\ k < last) =>
                      /\ t[k + 1].op = "write_interrupt"
                      /\ t[k + 1].data = SubSeq(data, chunk_start(k - 1) + 1,
                                                chunk_end(chunk_start(k - 1)))
                /\ (/\ n >= last
                    /\ \A j \in 1..last : t[j].res = "Ok"
                    /\ pc # "chunk")
                   => /\ rets # <<>>
                      /\ rets[1] = [fn |-> "upload_custom", ret |-> "Ok"]
                      /\ \A j \in 2..last : t[j].op = "write_interrupt"

C16_Witness ==
    /\ mode.m = "CustomSet"
    /\ mode.prog[3].buf = NumBuffers - 1
    /\ Len(Transfers) = 2 + NumChunks
    /\ ShortAt(4)
    /\ Transfers[5].data = SubSeq(Buffer(NumBuffers - 1, ProfileLen),
                                  chunk_start(3) + 1, chunk_end(chunk_start(3)))
    /\ rets[1] = [fn |-> "upload_custom", ret |-> "Ok"]
    /\ pc = "exit"
    /\ result = "Ok"

\* the calls of Drop, in the order of the code
TeardownCalls ==
    <<[op |-> "release_interface", a |-> 0],
      [op |-> "release_interface", a |-> 3],
      [op |-> "attach_kernel_driver", a |-> 0],
      [op |-> "attach_kernel_driver", a |-> 3]>>

\* how many of the calls of Drop have been made
TeardownDone ==
    CASE pc = "r0" -> 0
      [] pc = "r3" -> 1
      [] pc = "a0" -> 2
      [] pc = "a3" -> 3
      [] pc = "exit" /\ kbd = "dropped" -> 4
      [] OTHER -> -1

\* a step of Drop makes the next call and leaves main()'s result alone
TeardownStepKeepsResult ==
    TeardownDone \in 0..3 =>
        /\ TeardownDone' = TeardownDone + 1
        /\ result' = result
        /\ error' = error
        /\ rets' = rets

\* C17: teardown makes its four calls in the order release 0, release 3,
\* attach 0, attach 3, each whatever the earlier ones returned, and none of
\* them changes what main() returns.
C17_TeardownBestEffort ==
    /\ [](TeardownDone >= 0 =>
            /\ Len(log) >= TeardownDone
            /\ \A k \in 1..TeardownDone :
                  LET e == log[Len(log) - TeardownDone + k]
                  IN  [op |-> e.op, a |-> e.a] = TeardownCalls[k]
            /\ \A k \in 1..(Len(log) - TeardownDone) :
                  log[k].op \notin {"release_interface",
                                    "attach_kernel_driver"}
            /\ result = "Ok" <=> ip > Len(mode.prog)
            /\ result = "Err" <=> error # "none")
    /\ [][TeardownStepKeepsResult]_vars

C17_Witness ==
    /\ TeardownDone = 4
    /\ result = "Ok"
    /\ mode.m = "Preset"
    /\ \A k \in 1..4 : log[Len(log) - 4 + k].res = "Err"
    /\ \A k \in 1..(Len(log) - 4) : log[k].res # "Err"

\* a step that makes a transfer is taken by a live session that holds the
\* claims on both interfaces
TransferWhileClaimed ==
    Len(Transfers') > Len(Transfers) =>
        /\ \A j \in Ifaces : claimed[j]
        /\ handle = "open"
        /\ kbd = "live"

\* C18: every control or interrupt transfer is made while the session holds
\* the claims on interfaces 0 and 3: after both claims of FusionKBD::new
\* succeeded, never when it failed, and before the first release of Drop.
C18_TransfersOnlyWhileClaimed ==
    /\ [](\A k \in 1..Len(log) : IsTransfer(log[k]) =>
            /\ \A j \in Ifaces :
                  \E c \in Calls("claim_interface", j) :
                      c < k /\ log[c].res = "Ok"
            /\ \A c \in 1..(k - 1) :
                  log[c].op \notin {"release_interface",
                                    "attach_kernel_driver"})
    /\ [](~Opened => Transfers = <<>>)
    /\ [][TransferWhileClaimed]_vars

C18_Witness ==
    /\ pc = "exit"
    /\ mode.m = "CustomSet"
    /\ Len(Transfers) = 2 + NumChunks
    /\ log[Len(log) - 4].op = "write_control"
    /\ \A j \in Ifaces : ~claimed[j]
    /\ \E c \in Calls("claim_interface", 3) : log[c].res = "Ok" /\ c < 8

\* transfer k of the run carries a header of kind 0x08
IsActivation(k) ==
    /\ Transfers[k].op = "write_control"
    /\ Transfers[k].data[1] = KIND_PRESET

\* C19: in Mode::CustomSet the header of set_custom goes out only after
\* upload_custom returned Ok for the same slot, that is after the upload
\* header and the 8 chunks; when upload_custom returns an error no such
\* header is ever sent and main() goes straight to the teardown.
C19_ActivationOnlyAfterUpload ==
    LET t == Transfers
        slot == mode.prog[3].slot
    IN  mode.m = "CustomSet" =>
        /\ \A k \in 1..Len(t) : IsActivation(k) =>
              /\ k = 2 + NumChunks
              /\ rets[1] = [fn |-> "upload_custom", ret |-> "Ok"]
              /\ t[1].data = as_bytes(upload_header(slot))
              /\ \A j \in 2..(1 + NumChunks) :
                    t[j].op = "write_interrupt" /\ t[j].res = "Ok"
              /\ t[1].res = "Ok"
              /\ t[k].data = as_bytes(custom_header(slot,
                                                    mode.prog[4].brightness))
              /\ t[k].data[3] = CustomModeBase + t[1].data[3]
        /\ FirstReturned("upload_custom", "Err") =>
              /\ \A k \in 1..Len(t) : ~IsActivation(k)
              /\ Len(rets) = 1
              /\ ip = 3
              /\ pc \in {"r0", "r3", "a0", "a3", "exit"}
              /\ result = "Err"

C19_Witness ==
    /\ mode.m = "CustomSet"
    /\ mode.prog[3].slot = NumSlots - 1
    /\ Len(Transfers) = 2 + NumChunks
    /\ IsActivation(2 + NumChunks)
    /\ Len(rets) = 2
    /\ rets[1] = [fn |-> "upload_custom", ret |-> "Ok"]
    /\ pc = "a3"

\* the interrupt-out transfers made, oldest first
Writes == SelectSeq(log, LAMBDA e : e.op = "write_interrupt")

\* C20: every interrupt transfer of upload_custom carries exactly 64 bytes.
\* With slot < 5 and a slice of L < 512 bytes, upload_custom never returns
\* Ok; when no transfer call fails it sends the header and the L div 64 whole
\* chunks and then panics.  Of a longer slice only the first 512 bytes are
\* sent.
C20_OnlyWholeChunks ==
    /\ \A k \in 1..Len(Writes) : Len(Writes[k].data) = ChunkLen
    /\ (mode.m = "Api" /\ mode.prog[1].op = "upload_custom"
        /\ mode.prog[1].slot < NumSlots)
       =>
       LET up == mode.prog[1]
           L == up.len
           data == Buffer(up.buf, L)
           t == Transfers
           w == Writes
       IN  /\ \A k \in 1..Len(w) :
                 /\ k <= NumChunks
                 /\ w[k].data = SubSeq(data, (k - 1) * ChunkLen + 1,
                                       k * ChunkLen)
                 /\ k * ChunkLen <= ProfileLen
           /\ L < ProfileLen =>
                 /\ ~UploadReturned("Ok")
                 /\ result # "Ok"
                 /\ Len(w) <= L \div ChunkLen
                 /\ UploadReturned("panic") =>
                       /\ Len(t) = 1 + (L \div ChunkLen)
                       /\ t[1].data = as_bytes(upload_header(up.slot))
                       /\ Len(w) = L \div ChunkLen
                       /\ \A k \in 1..Len(t) : t[k].res = "Ok"
                       /\ result = "panic"
                 /\ (/\ pc \notin {"op", "chunk"}
                     /\ t # <<>>
                     /\ \A k \in 1..Len(t) : t[k].res = "Ok")
                    => UploadReturned("panic")
           /\ (L > ProfileLen /\ UploadReturned("Ok")) =>
                 /\ Len(w) = NumChunks
                 /\ \A j \in 1..ProfileLen :
                       w[((j - 1) \div ChunkLen) + 1]
                           .data[((j - 1) % ChunkLen) + 1] = data[j]

C20_Witness ==
    /\ mode.m = "Api"
    /\ mode.prog[1].op = "upload_custom"
    /\ mode.prog[1].slot = NumSlots - 1
    /\ mode.prog[1].len = 200
    /\ UploadReturned("panic")
    /\ Len(Writes) = 3
    /\ Len(Writes[3].data) = ChunkLen
    /\ pc = "exit"
    /\ result = "panic"

====
